---- MODULE Spec2Model ----
(***************************************************************************)
(* The /items CRUD service of src/main.go: five handlers behind one        *)
(* router, a process-wide cache map guarded by a sync.RWMutex, and a       *)
(* PostgreSQL table `items` reached through database/sql.                  *)
(*                                                                         *)
(* Every inbound request runs in its own goroutine (net/http).  A          *)
(* goroutine is a task of the model; its steps are the handler's accesses  *)
(* to shared state (one store call, one lock operation, one map access),   *)
(* each an atomic action.  Purely local work (decoding the body, parsing   *)
(* the id, encoding the response) is folded into the neighbouring step.    *)
(***************************************************************************)
EXTENDS Integers, Sequences, FiniteSets, TLC

(***************************************************************************)
(* Bounds of the model.                                                    *)
(***************************************************************************)
MaxId == 2          \* the items sequence hands out ids 1..MaxId
MaxRequests == 3    \* requests served one after the other (SpecSerial)
MaxOverlap == 2     \* requests served by concurrent goroutines (Spec)

Tasks == {1, 2}                \* goroutines serving requests concurrently
Titles == {"a", "b"}
BodyIds == {0, 1}              \* "id" field of a JSON body; 0 when absent

(***************************************************************************)
(* Values.                                                                 *)
(***************************************************************************)
None == "none"
NoTask == 0
ZeroItem == [ID |-> 0, Title |-> ""]                 \* `var item Item`

\* A request body: not JSON (an empty body included), or a JSON object with a
\* title and maybe an id.
Malformed == [valid |-> FALSE, ID |-> 0, Title |-> ""]
Bodies == {Malformed} \cup [valid : {TRUE}, ID : BodyIds, Title : Titles]

\* Values of the id query parameter, as sequences of characters.
\* r.URL.Query().Get("id") yields the empty string both for a missing and
\* for an empty parameter.
NoParam == << >>
Params == { <<"1">>, <<"2">>, <<" ", "1">>, <<"a">> }

\* The requests clients send.  createItem never reads the id parameter and
\* overwrites the body's id, getItem, getItems and deleteItem never read the
\* body, and the parameter of a PUT plays no part when its body is not JSON.
Requests ==
    [method : {"POST"}, param : {NoParam}, body : {b \in Bodies : b.ID = 0}]
    \cup [method : {"GET"}, param : {NoParam} \cup Params, body : {Malformed}]
    \cup [method : {"PUT"}, param : Params, body : Bodies \ {Malformed}]
    \cup [method : {"PUT"}, param : {<<"1">>}, body : {Malformed}]
    \cup [method : {"DELETE"}, param : Params, body : {Malformed}]
    \cup [method : {"PATCH"}, param : {NoParam}, body : {Malformed}]

NoReq == [method |-> None, param |-> NoParam, body |-> Malformed]

(***************************************************************************)
(* Finite maps (Go map, SQL table keyed by id).                            *)
(***************************************************************************)
MapPut(m, k, v) == [x \in DOMAIN m \cup {k} |-> IF x = k THEN v ELSE m[x]]
MapDelete(m, k) == [x \in DOMAIN m \ {k} |-> m[x]]
EmptyMap == [x \in {} |-> 0]

(***************************************************************************)
(* strconv.ParseInt(s, 0, 32), with the error dropped (`idInt, _ :=`):     *)
(* the value is 0 on a syntax error and the nearest int32 on a range       *)
(* error.  Base 0 takes the base from the prefix: "0x" 16, "0b" 2, "0o" 8, *)
(* a bare leading "0" 8, otherwise 10.  Defined for strings without        *)
(* underscores; a magnitude of exactly 2^31 counts as out of range.        *)
(***************************************************************************)
MaxInt32 == 2147483647

Lower(c) == CASE c = "X" -> "x" [] c = "B" -> "b" [] c = "O" -> "o" [] OTHER -> c

DigitVal(c) ==
    CASE c = "0" -> 0 [] c = "1" -> 1 [] c = "2" -> 2 [] c = "3" -> 3
      [] c = "4" -> 4 [] c = "5" -> 5 [] c = "6" -> 6 [] c = "7" -> 7
      [] c = "8" -> 8 [] c = "9" -> 9
      [] c = "a" -> 10 [] c = "b" -> 11 [] c = "c" -> 12
      [] c = "d" -> 13 [] c = "e" -> 14 [] c = "f" -> 15
      [] OTHER -> 99

\* The value of the digits of s in the given base; SyntaxErr when a character
\* is no digit of the base, RangeErr when the value exceeds MaxInt32.
SyntaxErr == -1
RangeErr == -2

RECURSIVE DigitsValue(_, _, _)
DigitsValue(s, base, acc) ==
    IF s = << >> THEN acc
    ELSE IF DigitVal(s[1]) >= base THEN SyntaxErr
    ELSE IF acc > (MaxInt32 - DigitVal(s[1])) \div base
            THEN (IF \A i \in DOMAIN s : DigitVal(s[i]) < base THEN RangeErr ELSE SyntaxErr)
    ELSE DigitsValue(Tail(s), base, acc * base + DigitVal(s[1]))

ParseUint(s) ==
    IF s = << >> THEN SyntaxErr
    ELSE IF s[1] = "0"
         THEN IF Len(s) >= 3 /\ Lower(s[2]) = "x"
                 THEN DigitsValue(SubSeq(s, 3, Len(s)), 16, 0)
              ELSE IF Len(s) >= 3 /\ Lower(s[2]) = "b"
                 THEN DigitsValue(SubSeq(s, 3, Len(s)), 2, 0)
              ELSE IF Len(s) >= 3 /\ Lower(s[2]) = "o"
                 THEN DigitsValue(SubSeq(s, 3, Len(s)), 8, 0)
              ELSE DigitsValue(Tail(s), 8, 0)
         ELSE DigitsValue(s, 10, 0)

ParseInt(s) ==
    LET neg == s # << >> /\ s[1] = "-"
        signed == s # << >> /\ s[1] \in {"+", "-"}
        u == ParseUint(IF signed THEN Tail(s) ELSE s)
    IN  IF u = SyntaxErr THEN 0
        ELSE IF u = RangeErr THEN (IF neg THEN -MaxInt32 - 1 ELSE MaxInt32)
        ELSE IF neg THEN -u ELSE u

(***************************************************************************)
(* How the server reads a text parameter bound to the integer column id   *)
(* (`WHERE id = $1` with a Go string argument): leading and trailing      *)
(* white space is skipped, an optional sign, then decimal digits; anything *)
(* else, or a value beyond MaxInt32 in size, is an error of the statement.  *)
(***************************************************************************)
PgError == [err |-> TRUE, val |-> 0]

RECURSIVE TrimLeft(_)
TrimLeft(s) == IF s # << >> /\ s[1] = " " THEN TrimLeft(Tail(s)) ELSE s

RECURSIVE TrimRight(_)
TrimRight(s) ==
    IF s # << >> /\ s[Len(s)] = " " THEN TrimRight(SubSeq(s, 1, Len(s) - 1)) ELSE s

PgInt(s) ==
    LET t == TrimRight(TrimLeft(s))
        neg == t # << >> /\ t[1] = "-"
        signed == t # << >> /\ t[1] \in {"+", "-"}
        d == IF signed THEN Tail(t) ELSE t
        u == IF d = << >> THEN SyntaxErr ELSE DigitsValue(d, 10, 0)
    IN  IF u \in {SyntaxErr, RangeErr} THEN PgError
        ELSE [err |-> FALSE, val |-> IF neg THEN -u ELSE u]

(***************************************************************************)
(* json.NewDecoder(r.Body).Decode(&item): an error, or the item with the   *)
(* fields the body gives (ID stays 0 when the body has no "id").           *)
(***************************************************************************)
Decode(body) ==
    IF body.valid THEN [err |-> FALSE, item |-> [ID |-> body.ID, Title |-> body.Title]]
    ELSE [err |-> TRUE, item |-> ZeroItem]

(***************************************************************************)
(* json.NewEncoder(w).Encode(items) of a []Item: a nil slice encodes as    *)
(* null, a slice made by make([]Item, 0) as an array, even when empty.     *)
(***************************************************************************)
NilSlice == [nil |-> TRUE, elems |-> << >>]
MakeSlice == [nil |-> FALSE, elems |-> << >>]     \* items := make([]Item, 0)
AppendSlice(s, x) == [nil |-> FALSE, elems |-> Append(s.elems, x)]

\* Responses: the status, and the body that was encoded.
NoResp == [status |-> 0, body |-> None, item |-> ZeroItem, elems |-> << >>, text |-> ""]
RespItem(st, it) == [status |-> st, body |-> "item", item |-> it, elems |-> << >>, text |-> ""]
RespText(st, txt) == [status |-> st, body |-> "text", item |-> ZeroItem, elems |-> << >>, text |-> txt]
RespSlice(st, s) ==
    [status |-> st, body |-> IF s.nil THEN "null" ELSE "array", item |-> ZeroItem,
     elems |-> s.elems, text |-> ""]

\* for rows.Next() { rows.Scan(...); items = append(items, item) }, from row i on.
RECURSIVE ScanRows(_, _, _)
ScanRows(items, result, i) ==
    IF i > Len(result) THEN items
    ELSE ScanRows(AppendSlice(items, result[i]), result, i + 1)

\* The result sets `SELECT id, title FROM items` can deliver: every row of the
\* table once, in an order the server chooses.
ResultSets(table) ==
    { s \in [1..Cardinality(DOMAIN table) -> {[ID |-> k, Title |-> table[k]] : k \in DOMAIN table}] :
        \A i, j \in DOMAIN s : i # j => s[i] # s[j] }

VARIABLES
    rows,         \* table items: id -> title
    nextId,       \* next value of the id sequence of the table
    cache,        \* var cache = make(map[int]Item)
    readers,      \* goroutines holding cacheMutex for reading
    writer,       \* goroutine holding cacheMutex for writing, or NoTask
    pc,           \* where each goroutine stands in its handler
    req,          \* the request a goroutine is serving
    handler,      \* the handler itemsHandler called for it
    item,         \* the handler's local `item` (itemFromCache in getItem's lookup)
    found,        \* getItem's local `found`
    resp,         \* the response written so far
    storeCalls,   \* store statements the request has executed
    storeFailed,  \* whether the request's store statement returned an error
    cacheReads,   \* reads of the cache map by the request
    cacheWrites,  \* writes and deletes of the cache map by the request
    started,      \* requests accepted so far
    cache0,       \* serial client: the cache map when the request arrived
    follows,      \* serial client: the request before the one being served
    last          \* serial client: the latest completed request

vars == << rows, nextId, cache, readers, writer, pc, req, handler, item, found, resp,
           storeCalls, storeFailed, cacheReads, cacheWrites, cache0, follows, last, started >>

shared == << rows, nextId, cache, readers, writer >>
locals == << req, handler, item, found >>
counters == << storeCalls, storeFailed, cacheReads, cacheWrites >>
client == << cache0, follows, last >>
history == << started, cache0, follows, last >>

(***************************************************************************)
(* What is remembered of a completed request, for the claims about one     *)
(* request following another: a successful Create, Update or Delete.       *)
(***************************************************************************)
NoSummary == [handler |-> None, param |-> NoParam, id |-> 0, title |-> ""]

Summary(t) ==
    IF handler[t] = "createItem" /\ resp[t].status = 201
        THEN [handler |-> "createItem", param |-> NoParam, id |-> resp[t].item.ID,
              title |-> resp[t].item.Title]
    ELSE IF handler[t] = "updateItem" /\ resp[t].status = 200
        THEN [handler |-> "updateItem", param |-> req[t].param, id |-> 0,
              title |-> req[t].body.Title]
    ELSE IF handler[t] = "deleteItem" /\ resp[t].status = 200
        THEN [handler |-> "deleteItem", param |-> req[t].param, id |-> 0, title |-> ""]
    ELSE NoSummary

\* The process starts with an empty cache on a table that outlives it: the
\* sequence has handed out some ids, and some of their rows are still there.
Init ==
    /\ nextId \in 1..(MaxId + 1)
    /\ \E ids \in SUBSET (1..(nextId - 1)) : rows = [k \in ids |-> "a"]
    /\ cache = EmptyMap
    /\ readers = {}
    /\ writer = NoTask
    /\ pc = [t \in Tasks |-> "idle"]
    /\ req = [t \in Tasks |-> NoReq]
    /\ handler = [t \in Tasks |-> None]
    /\ item = [t \in Tasks |-> ZeroItem]
    /\ found = [t \in Tasks |-> FALSE]
    /\ resp = [t \in Tasks |-> NoResp]
    /\ storeCalls = [t \in Tasks |-> 0]
    /\ storeFailed = [t \in Tasks |-> FALSE]
    /\ cacheReads = [t \in Tasks |-> 0]
    /\ cacheWrites = [t \in Tasks |-> 0]
    /\ started = 0
    /\ cache0 = EmptyMap
    /\ follows = NoSummary
    /\ last = NoSummary

(***************************************************************************)
(* sync.RWMutex.                                                           *)
(***************************************************************************)
CanLock == writer = NoTask /\ readers = {}
CanRLock == writer = NoTask

Lock(t) == /\ CanLock
           /\ writer' = t
           /\ UNCHANGED readers

Unlock(t) == /\ writer' = IF writer = t THEN NoTask ELSE writer
             /\ UNCHANGED readers

RLock(t) == /\ CanRLock
            /\ readers' = readers \cup {t}
            /\ UNCHANGED writer

RUnlock(t) == /\ readers' = readers \ {t}
              /\ UNCHANGED writer

(***************************************************************************)
(* Steps shared by the handlers.                                           *)
(***************************************************************************)
\* The handler writes its response and returns.
Respond(t, r) ==
    /\ resp' = [resp EXCEPT ![t] = r]
    /\ pc' = [pc EXCEPT ![t] = "done"]

Goto(t, label) ==
    /\ pc' = [pc EXCEPT ![t] = label]
    /\ UNCHANGED resp

\* A store statement was executed; failed tells whether it returned an error.
StoreCall(t, failed) ==
    /\ storeCalls' = [storeCalls EXCEPT ![t] = @ + 1]
    /\ storeFailed' = [storeFailed EXCEPT ![t] = failed]
    /\ UNCHANGED << cacheReads, cacheWrites >>

InFlight == { t \in Tasks : pc[t] # "idle" }

(***************************************************************************)
(* itemsHandler: the router.  The request arrives and is dispatched on its *)
(* method and on whether Query().Get("id") is empty.                       *)
(***************************************************************************)
\* The test on the id parameter is inverted.
RouteInverted(r) ==
    CASE r.method = "POST" -> "createItem"
      [] r.method = "GET" -> IF r.param = << >> THEN "getItem" ELSE "getItems"
      [] r.method = "PUT" -> "updateItem"
      [] r.method = "DELETE" -> "deleteItem"
      [] OTHER -> None

Route(r) ==
    CASE r.method = "POST" -> "createItem"
      [] r.method = "GET" -> IF r.param = << >> THEN "getItems" ELSE "getItem"
      [] r.method = "PUT" -> "updateItem"
      [] r.method = "DELETE" -> "deleteItem"
      [] OTHER -> None

itemsHandler(t) ==
    /\ pc[t] = "idle"
    /\ \E r \in Requests :
        /\ req' = [req EXCEPT ![t] = r]
        /\ handler' = [handler EXCEPT ![t] = Route(r)]
        /\ IF Route(r) = None
              THEN Respond(t, RespText(405, "Method not Allowed"))
              ELSE Goto(t, Route(r))
    /\ started' = started + 1
    /\ UNCHANGED << shared, item, found, counters >>

\* The handler has returned: the goroutine is free for the next request.
Return(t) ==
    /\ pc[t] = "done"
    /\ pc' = [pc EXCEPT ![t] = "idle"]
    /\ req' = [req EXCEPT ![t] = NoReq]
    /\ handler' = [handler EXCEPT ![t] = None]
    /\ item' = [item EXCEPT ![t] = ZeroItem]
    /\ found' = [found EXCEPT ![t] = FALSE]
    /\ resp' = [resp EXCEPT ![t] = NoResp]
    /\ storeCalls' = [storeCalls EXCEPT ![t] = 0]
    /\ storeFailed' = [storeFailed EXCEPT ![t] = FALSE]
    /\ cacheReads' = [cacheReads EXCEPT ![t] = 0]
    /\ cacheWrites' = [cacheWrites EXCEPT ![t] = 0]
    /\ UNCHANGED << shared, started >>

(***************************************************************************)
(* createItem                                                              *)
(***************************************************************************)

\* The sequence is read but not advanced: the next INSERT gets the same id.
createItemReusesId(t) ==
    /\ pc[t] = "createItem"
    /\ LET d == Decode(req[t].body) IN
        IF d.err
        THEN /\ Respond(t, RespText(400, "decode"))
             /\ UNCHANGED << shared, locals, counters, history >>
        ELSE \/ /\ StoreCall(t, TRUE)
                /\ Respond(t, RespText(500, "store"))
                /\ UNCHANGED << shared, locals, history >>
             \/ /\ nextId <= MaxId
                /\ StoreCall(t, FALSE)
                /\ rows' = MapPut(rows, nextId, d.item.Title)
                /\ item' = [item EXCEPT ![t] = [ID |-> nextId, Title |-> d.item.Title]]
                /\ Goto(t, "createItemLock")
                /\ UNCHANGED << nextId, cache, readers, writer, req, handler, found, history >>

\* Decode the body, then INSERT ... RETURNING id.
createItem(t) ==
    /\ pc[t] = "createItem"
    /\ LET d == Decode(req[t].body) IN
        IF d.err
        THEN /\ Respond(t, RespText(400, "decode"))
             /\ UNCHANGED << shared, locals, counters, history >>
        ELSE \/ /\ StoreCall(t, TRUE)
                /\ Respond(t, RespText(500, "store"))
                /\ UNCHANGED << shared, locals, history >>
             \/ /\ nextId <= MaxId
                /\ StoreCall(t, FALSE)
                /\ rows' = MapPut(rows, nextId, d.item.Title)
                /\ nextId' = nextId + 1
                /\ item' = [item EXCEPT ![t] = [ID |-> nextId, Title |-> d.item.Title]]
                /\ Goto(t, "createItemLock")
                /\ UNCHANGED << cache, readers, writer, req, handler, found, history >>

createItemLock(t) ==
    /\ pc[t] = "createItemLock"
    /\ Lock(t)
    /\ Goto(t, "createItemPut")
    /\ UNCHANGED << rows, nextId, cache, locals, counters, history >>

\* The entry is stored before Scan has set the id: under key 0.
createItemPutBeforeScan(t) ==
    /\ pc[t] = "createItemPut"
    /\ cache' = MapPut(cache, 0, [ID |-> 0, Title |-> item[t].Title])
    /\ cacheWrites' = [cacheWrites EXCEPT ![t] = @ + 1]
    /\ Goto(t, "createItemUnlock")
    /\ UNCHANGED << rows, nextId, readers, writer, locals, storeCalls, storeFailed,
                    cacheReads, history >>

createItemPut(t) ==
    /\ pc[t] = "createItemPut"
    /\ cache' = MapPut(cache, item[t].ID, item[t])
    /\ cacheWrites' = [cacheWrites EXCEPT ![t] = @ + 1]
    /\ Goto(t, "createItemUnlock")
    /\ UNCHANGED << rows, nextId, readers, writer, locals, storeCalls, storeFailed,
                    cacheReads, history >>

createItemUnlock(t) ==
    /\ pc[t] = "createItemUnlock"
    /\ Unlock(t)
    /\ Respond(t, RespItem(201, item[t]))
    /\ UNCHANGED << rows, nextId, cache, locals, counters, history >>

(***************************************************************************)
(* getItem                                                                 *)
(***************************************************************************)
idInt(t) == ParseInt(req[t].param)

\* The map is read without taking the lock.
getItemNoRLock(t) ==
    /\ pc[t] = "getItem"
    /\ Goto(t, "getItemLookup")
    /\ UNCHANGED << shared, locals, counters, history >>

getItemRLock(t) ==
    /\ pc[t] = "getItem"
    /\ RLock(t)
    /\ Goto(t, "getItemLookup")
    /\ UNCHANGED << rows, nextId, cache, locals, counters, history >>

getItemLookup(t) ==
    /\ pc[t] = "getItemLookup"
    /\ found' = [found EXCEPT ![t] = idInt(t) \in DOMAIN cache]
    /\ item' = [item EXCEPT ![t] = IF idInt(t) \in DOMAIN cache THEN cache[idInt(t)] ELSE ZeroItem]
    /\ cacheReads' = [cacheReads EXCEPT ![t] = @ + 1]
    /\ Goto(t, "getItemRUnlock")
    /\ UNCHANGED << shared, req, handler, storeCalls, storeFailed, cacheWrites, history >>

\* The handler goes on to the store even when the entry was found.
getItemRUnlockIgnoresFound(t) ==
    /\ pc[t] = "getItemRUnlock"
    /\ RUnlock(t)
    /\ Goto(t, "getItemQuery")
    /\ UNCHANGED << rows, nextId, cache, locals, counters, history >>

\* The read lock is kept while the handler goes on to the store.
getItemRUnlockDeferred(t) ==
    /\ pc[t] = "getItemRUnlock"
    /\ IF found[t] THEN Respond(t, RespItem(200, item[t])) ELSE Goto(t, "getItemQuery")
    /\ UNCHANGED << shared, locals, counters, history >>

getItemRUnlock(t) ==
    /\ pc[t] = "getItemRUnlock"
    /\ RUnlock(t)
    /\ IF found[t] THEN Respond(t, RespItem(200, item[t])) ELSE Goto(t, "getItemQuery")
    /\ UNCHANGED << rows, nextId, cache, locals, counters, history >>

\* sql.ErrNoRows is not told apart from success: the zero Item is cached and
\* returned.
getItemQueryIgnoresNoRows(t) ==
    /\ pc[t] = "getItemQuery"
    /\ LET id == PgInt(req[t].param) IN
        \/ /\ StoreCall(t, TRUE)
           /\ Respond(t, RespText(500, "store"))
           /\ UNCHANGED << shared, locals, history >>
        \/ /\ ~id.err
           /\ StoreCall(t, FALSE)
           /\ item' = [item EXCEPT ![t] = IF id.val \in DOMAIN rows
                                          THEN [ID |-> id.val, Title |-> rows[id.val]]
                                          ELSE ZeroItem]
           /\ Goto(t, "getItemLock")
           /\ UNCHANGED << shared, req, handler, found, history >>

\* SELECT id, title FROM items WHERE id=$1, with the raw parameter string.
getItemQuery(t) ==
    /\ pc[t] = "getItemQuery"
    /\ LET id == PgInt(req[t].param) IN
        \/ /\ StoreCall(t, TRUE)
           /\ Respond(t, RespText(500, "store"))
           /\ UNCHANGED << shared, locals, history >>
        \/ /\ ~id.err
           /\ id.val \notin DOMAIN rows
           /\ StoreCall(t, FALSE)
           /\ Respond(t, RespText(404, "Item not found"))
           /\ UNCHANGED << shared, locals, history >>
        \/ /\ ~id.err
           /\ id.val \in DOMAIN rows
           /\ StoreCall(t, FALSE)
           /\ item' = [item EXCEPT ![t] = [ID |-> id.val, Title |-> rows[id.val]]]
           /\ Goto(t, "getItemLock")
           /\ UNCHANGED << shared, req, handler, found, history >>

getItemLock(t) ==
    /\ pc[t] = "getItemLock"
    /\ Lock(t)
    /\ Goto(t, "getItemPut")
    /\ UNCHANGED << rows, nextId, cache, locals, counters, history >>

\* The fetched row is cached under the key the lookup used.
getItemPutParsedKey(t) ==
    /\ pc[t] = "getItemPut"
    /\ cache' = MapPut(cache, idInt(t), item[t])
    /\ cacheWrites' = [cacheWrites EXCEPT ![t] = @ + 1]
    /\ Goto(t, "getItemUnlock")
    /\ UNCHANGED << rows, nextId, readers, writer, locals, storeCalls, storeFailed,
                    cacheReads, history >>

getItemPut(t) ==
    /\ pc[t] = "getItemPut"
    /\ cache' = MapPut(cache, item[t].ID, item[t])
    /\ cacheWrites' = [cacheWrites EXCEPT ![t] = @ + 1]
    /\ Goto(t, "getItemUnlock")
    /\ UNCHANGED << rows, nextId, readers, writer, locals, storeCalls, storeFailed,
                    cacheReads, history >>

getItemUnlock(t) ==
    /\ pc[t] = "getItemUnlock"
    /\ Unlock(t)
    /\ Respond(t, RespItem(200, item[t]))
    /\ UNCHANGED << rows, nextId, cache, locals, counters, history >>

(***************************************************************************)
(* getItems                                                                *)
(***************************************************************************)
getItems(t) ==
    /\ pc[t] = "getItems"
    /\ \/ /\ StoreCall(t, TRUE)
          /\ Respond(t, RespText(500, "store"))
       \/ /\ StoreCall(t, FALSE)
          /\ \E result \in ResultSets(rows) :
                Respond(t, RespSlice(200, ScanRows(MakeSlice, result, 1)))
    /\ UNCHANGED << shared, locals, history >>

(***************************************************************************)
(* updateItem                                                              *)
(***************************************************************************)

\* The statement's row count is checked: 404 when it matched no row.
updateItemChecksRowCount(t) ==
    /\ pc[t] = "updateItem"
    /\ LET d == Decode(req[t].body)
           id == PgInt(req[t].param) IN
        IF d.err
        THEN /\ Respond(t, RespText(400, "decode"))
             /\ UNCHANGED << shared, locals, counters, history >>
        ELSE \/ /\ StoreCall(t, TRUE)
                /\ Respond(t, RespText(500, "store"))
                /\ UNCHANGED << shared, locals, history >>
             \/ /\ ~id.err
                /\ id.val \notin DOMAIN rows
                /\ StoreCall(t, FALSE)
                /\ Respond(t, RespText(404, "Item not found"))
                /\ UNCHANGED << shared, locals, history >>
             \/ /\ ~id.err
                /\ id.val \in DOMAIN rows
                /\ StoreCall(t, FALSE)
                /\ rows' = MapPut(rows, id.val, d.item.Title)
                /\ item' = [item EXCEPT ![t] = d.item]
                /\ Goto(t, "updateItemLock")
                /\ UNCHANGED << nextId, cache, readers, writer, req, handler, found, history >>

\* The cache entry is written before the statement is executed, whatever its
\* outcome.
updateItemCachesFirst(t) ==
    /\ pc[t] = "updateItem"
    /\ LET d == Decode(req[t].body)
           id == PgInt(req[t].param) IN
        IF d.err
        THEN /\ Respond(t, RespText(400, "decode"))
             /\ UNCHANGED << shared, locals, counters, history >>
        ELSE /\ cache' = MapPut(cache, d.item.ID, d.item)
             /\ cacheWrites' = [cacheWrites EXCEPT ![t] = @ + 1]
             /\ storeCalls' = [storeCalls EXCEPT ![t] = @ + 1]
             /\ UNCHANGED << nextId, readers, writer, req, handler, found, cacheReads, history >>
             /\ \/ /\ storeFailed' = [storeFailed EXCEPT ![t] = TRUE]
                   /\ Respond(t, RespText(500, "store"))
                   /\ UNCHANGED << rows, item >>
                \/ /\ ~id.err
                   /\ storeFailed' = [storeFailed EXCEPT ![t] = FALSE]
                   /\ rows' = IF id.val \in DOMAIN rows THEN MapPut(rows, id.val, d.item.Title) ELSE rows
                   /\ item' = [item EXCEPT ![t] = d.item]
                   /\ Respond(t, RespText(200, "Item updated successfully"))

\* Decode the body, then UPDATE items SET title = $1 WHERE id = $2 with the
\* raw parameter string; a statement that matches no row is no error.
updateItem(t) ==
    /\ pc[t] = "updateItem"
    /\ LET d == Decode(req[t].body)
           id == PgInt(req[t].param) IN
        IF d.err
        THEN /\ Respond(t, RespText(400, "decode"))
             /\ UNCHANGED << shared, locals, counters, history >>
        ELSE \/ /\ StoreCall(t, TRUE)
                /\ Respond(t, RespText(500, "store"))
                /\ UNCHANGED << shared, locals, history >>
             \/ /\ ~id.err
                /\ StoreCall(t, FALSE)
                /\ rows' = IF id.val \in DOMAIN rows THEN MapPut(rows, id.val, d.item.Title) ELSE rows
                /\ item' = [item EXCEPT ![t] = d.item]
                /\ Goto(t, "updateItemLock")
                /\ UNCHANGED << nextId, cache, readers, writer, req, handler, found, history >>

updateItemLock(t) ==
    /\ pc[t] = "updateItemLock"
    /\ Lock(t)
    /\ Goto(t, "updateItemPut")
    /\ UNCHANGED << rows, nextId, cache, locals, counters, history >>

\* An entry that is already cached is kept.
updateItemPutIfAbsent(t) ==
    /\ pc[t] = "updateItemPut"
    /\ cache' = IF item[t].ID \in DOMAIN cache THEN cache ELSE MapPut(cache, item[t].ID, item[t])
    /\ cacheWrites' = [cacheWrites EXCEPT ![t] = @ + 1]
    /\ Goto(t, "updateItemUnlock")
    /\ UNCHANGED << rows, nextId, readers, writer, locals, storeCalls, storeFailed,
                    cacheReads, history >>

updateItemPut(t) ==
    /\ pc[t] = "updateItemPut"
    /\ cache' = MapPut(cache, item[t].ID, item[t])
    /\ cacheWrites' = [cacheWrites EXCEPT ![t] = @ + 1]
    /\ Goto(t, "updateItemUnlock")
    /\ UNCHANGED << rows, nextId, readers, writer, locals, storeCalls, storeFailed,
                    cacheReads, history >>

\* The handler answers and returns with the write lock still held.
updateItemUnlockForgotten(t) ==
    /\ pc[t] = "updateItemUnlock"
    /\ Respond(t, RespText(200, "Item updated successfully"))
    /\ UNCHANGED << shared, locals, counters, history >>

updateItemUnlock(t) ==
    /\ pc[t] = "updateItemUnlock"
    /\ Unlock(t)
    /\ Respond(t, RespText(200, "Item updated successfully"))
    /\ UNCHANGED << rows, nextId, cache, locals, counters, history >>

(***************************************************************************)
(* deleteItem                                                              *)
(***************************************************************************)
\* DELETE FROM items WHERE id = $1 with the parsed id; a statement that
\* matches no row is no error.
deleteItem(t) ==
    /\ pc[t] = "deleteItem"
    /\ \/ /\ StoreCall(t, TRUE)
          /\ Respond(t, RespText(500, "store"))
          /\ UNCHANGED << shared, locals, history >>
       \/ /\ StoreCall(t, FALSE)
          /\ rows' = MapDelete(rows, idInt(t))
          /\ Goto(t, "deleteItemLock")
          /\ UNCHANGED << nextId, cache, readers, writer, locals, history >>

deleteItemLock(t) ==
    /\ pc[t] = "deleteItemLock"
    /\ Lock(t)
    /\ Goto(t, "deleteItemDelete")
    /\ UNCHANGED << rows, nextId, cache, locals, counters, history >>

\* The whole map is emptied.
deleteItemClearsCache(t) ==
    /\ pc[t] = "deleteItemDelete"
    /\ cache' = EmptyMap
    /\ cacheWrites' = [cacheWrites EXCEPT ![t] = @ + 1]
    /\ Goto(t, "deleteItemUnlock")
    /\ UNCHANGED << rows, nextId, readers, writer, locals, storeCalls, storeFailed,
                    cacheReads, history >>

\* The cache entry is left in place.
deleteItemKeepsEntry(t) ==
    /\ pc[t] = "deleteItemDelete"
    /\ Goto(t, "deleteItemUnlock")
    /\ UNCHANGED << shared, locals, counters, history >>

deleteItemDelete(t) ==
    /\ pc[t] = "deleteItemDelete"
    /\ cache' = MapDelete(cache, idInt(t))
    /\ cacheWrites' = [cacheWrites EXCEPT ![t] = @ + 1]
    /\ Goto(t, "deleteItemUnlock")
    /\ UNCHANGED << rows, nextId, readers, writer, locals, storeCalls, storeFailed,
                    cacheReads, history >>

deleteItemUnlock(t) ==
    /\ pc[t] = "deleteItemUnlock"
    /\ Unlock(t)
    /\ Respond(t, RespText(200, "Item deleted successfully"))
    /\ UNCHANGED << rows, nextId, cache, locals, counters, history >>

(***************************************************************************)
(* The table is shared with other clients of the database: a row can be   *)
(* deleted behind the back of this process.                                *)
(***************************************************************************)
ExternalDelete ==
    /\ \E k \in DOMAIN rows : rows' = MapDelete(rows, k)
    /\ UNCHANGED << nextId, cache, readers, writer, pc, locals, resp, counters, history >>

Work(t) ==
    \/ createItem(t) \/ createItemLock(t) \/ createItemPut(t) \/ createItemUnlock(t)
    \/ getItemRLock(t) \/ getItemLookup(t) \/ getItemRUnlock(t) \/ getItemQuery(t)
    \/ getItemLock(t) \/ getItemPut(t) \/ getItemUnlock(t)
    \/ getItems(t)
    \/ updateItem(t) \/ updateItemLock(t) \/ updateItemPut(t) \/ updateItemUnlock(t)
    \/ deleteItem(t) \/ deleteItemLock(t) \/ deleteItemDelete(t) \/ deleteItemUnlock(t)

\* net/http starts a goroutine for each request.  Goroutines have no identity
\* of their own, so a request takes the first free one.
FreeSlot(t) == \A u \in Tasks : u < t => pc[u] # "idle"

\* Requests arrive while others are being served; the process is alone on its
\* database.
Next ==
    \E t \in Tasks :
        \/ started < MaxOverlap /\ FreeSlot(t) /\ itemsHandler(t) /\ UNCHANGED client
        \/ Work(t)
        \/ Return(t) /\ UNCHANGED client

Spec == Init /\ [][Next]_vars

\* The scheduler lets every goroutine that can take a step take one, a store
\* statement included (it returns, with or without error); and a goroutine
\* that asks for cacheMutex gets it if the lock comes free again and again.
LockSteps(t) ==
    \/ createItemLock(t) \/ getItemRLock(t) \/ getItemLock(t)
    \/ updateItemLock(t) \/ deleteItemLock(t)

Fairness == \A t \in Tasks : WF_vars(Work(t)) /\ SF_vars(LockSteps(t))

SpecFair == Spec /\ Fairness

\* A client that waits for each response before its next request, and keeps
\* what it sent and got; meanwhile rows may disappear from the table behind
\* the back of the process.
SerialRequest(t) ==
    /\ started < MaxRequests
    /\ InFlight = {}
    /\ FreeSlot(t)
    /\ itemsHandler(t)
    /\ cache0' = cache
    /\ follows' = last
    /\ UNCHANGED last

SerialResponse(t) ==
    /\ Return(t)
    /\ last' = Summary(t)
    /\ UNCHANGED << cache0, follows >>

NextSerial ==
    \/ \E t \in Tasks : SerialRequest(t) \/ Work(t) \/ SerialResponse(t)
    \/ ExternalDelete

SpecSerial == Init /\ [][NextSerial]_vars

(***************************************************************************)
(* Properties.                                                             *)
(***************************************************************************)
\* The decimal text of an id, as a client writes it into ?id=.
Digits == <<"0", "1", "2", "3", "4", "5", "6", "7", "8", "9">>

RECURSIVE Format(_)
Format(n) == IF n < 10 THEN <<Digits[n + 1]>> ELSE Format(n \div 10) \o <<Digits[(n % 10) + 1]>>

Ids == 0..(MaxId + 1)

Done(t, h) == pc[t] = "done" /\ handler[t] = h

\* The request's store statement answered, or its failure was reported as 500.
StatusUnlessStoreFails(t, st) ==
    \/ ~storeFailed[t] /\ resp[t].status = st
    \/ storeFailed[t] /\ resp[t].status = 500

\* C1: a single-item Read of the id a successful Create has just returned
\* answers 200 with the very item Create returned and executes no store
\* statement, also when the row has meanwhile been deleted from the table by
\* another client.
CreateThenRead ==
    \A t \in Tasks :
        ( /\ Done(t, "getItem")
          /\ follows.handler = "createItem"
          /\ req[t].param = Format(follows.id) )
        => /\ resp[t] = RespItem(200, [ID |-> follows.id, Title |-> follows.title])
           /\ found[t]
           /\ storeCalls[t] = 0

CreateThenReadWitness ==
    \E t \in Tasks :
        /\ Done(t, "getItem")
        /\ follows.handler = "createItem"
        /\ req[t].param = Format(follows.id)
        /\ follows.id \notin DOMAIN rows
        /\ resp[t].status = 200

\* C2: when an Update answers 200, the cache holds, under the id N of the
\* query parameter, the item {N, title of the body}.
UpdateCachesQueryId ==
    \A t \in Tasks :
        (Done(t, "updateItem") /\ resp[t].status = 200)
        => LET n == PgInt(req[t].param).val IN
             /\ n \in DOMAIN cache
             /\ cache[n] = [ID |-> n, Title |-> req[t].body.Title]

\* C3: a single-item Read of id N right after a successful Update of N, N
\* never handed out by the table, answers 200 with the phantom {N, title}
\* (no store statement of the Read failing).
UpdateThenReadPhantom ==
    \A t \in Tasks : \A n \in Ids :
        ( /\ Done(t, "getItem")
          /\ follows.handler = "updateItem"
          /\ req[t].param = follows.param
          /\ req[t].param = Format(n)
          /\ n >= nextId
          /\ ~storeFailed[t] )
        => resp[t] = RespItem(200, [ID |-> n, Title |-> follows.title])

\* C4: a single-item Read of id N right after a successful Delete of N misses
\* the cache, executes one store statement and answers 404 (500 when that
\* statement itself fails), whatever was cached or stored before the Delete.
DeleteThenRead ==
    \A t \in Tasks : \A n \in Ids :
        ( /\ Done(t, "getItem")
          /\ follows.handler = "deleteItem"
          /\ req[t].param = follows.param
          /\ req[t].param = Format(n) )
        => /\ ~found[t]
           /\ storeCalls[t] = 1
           /\ StatusUnlessStoreFails(t, 404)

DeleteThenReadWitness ==
    \E t \in Tasks : \E n \in Ids :
        /\ Done(t, "getItem")
        /\ follows.handler = "deleteItem"
        /\ req[t].param = follows.param
        /\ req[t].param = Format(n)
        /\ n < nextId
        /\ resp[t].status = 404

CacheMatchesStore ==
    InFlight = {}
    => \A k \in DOMAIN cache :
          /\ k \in DOMAIN rows
          /\ cache[k] = [ID |-> k, Title |-> rows[k]]

\* C7: a Read-all that answers 200 returns, as an array (never null), every
\* row the table holds at its SELECT, once each, and nothing else, whatever
\* the cache holds; it answers 200 unless the SELECT fails, and the request
\* neither reads nor writes the cache.
ItemsOf(table) == { [ID |-> k, Title |-> table[k]] : k \in DOMAIN table }

ReadAllReturnsStore ==
    [][ \A t \in Tasks :
          (pc[t] = "getItems" /\ pc'[t] = "done")
          => /\ cache' = cache
             /\ cacheReads'[t] = 0
             /\ cacheWrites'[t] = 0
             /\ resp'[t].status = 200 \/ (storeFailed'[t] /\ resp'[t].status = 500)
             /\ resp'[t].status = 200
                => /\ resp'[t].body = "array"
                   /\ { resp'[t].elems[i] : i \in DOMAIN resp'[t].elems } = ItemsOf(rows)
                   /\ Len(resp'[t].elems) = Cardinality(DOMAIN rows) ]_vars

ReadAllWitness ==
    \E t \in Tasks :
        /\ Done(t, "getItems")
        /\ resp[t].status = 200
        /\ resp[t].elems # << >>
        /\ \E k \in DOMAIN cache : k \notin DOMAIN rows \/ cache[k].Title # rows[k]

\* C8: the cache map is read only under the read lock and written only
\* under the write lock, and a goroutine inside a write section is alone:
\* no other goroutine is inside a read or a write section.  Read sections
\* may overlap.
InReadSection(t) == pc[t] \in {"getItemLookup", "getItemRUnlock"}
InWriteSection(t) ==
    pc[t] \in { "createItemPut", "createItemUnlock", "getItemPut", "getItemUnlock",
                "updateItemPut", "updateItemUnlock", "deleteItemDelete", "deleteItemUnlock" }

LockDiscipline ==
    /\ \A t \in Tasks : InReadSection(t) => t \in readers
    /\ \A t \in Tasks : InWriteSection(t) => writer = t
    /\ \A t, u \in Tasks :
          (t # u /\ InWriteSection(t)) => ~InWriteSection(u) /\ ~InReadSection(u)

LockDisciplineWitness ==
    \E t, u \in Tasks :
        /\ t # u
        /\ pc[t] = "getItemLookup"
        /\ pc[u] = "getItemLookup"

\* C9: the router calls createItem for POST, getItems for GET without id,
\* getItem for GET with id, updateItem for PUT and deleteItem for DELETE; any
\* other method is answered 405 at once, no handler called, table and cache
\* untouched.
RouterDispatch ==
    [][ \A t \in Tasks :
          (pc[t] = "idle" /\ pc'[t] # "idle")
          => LET r == req'[t]
                 called(h) == handler'[t] = h /\ pc'[t] = h
             IN  /\ r.method = "POST" => called("createItem")
                 /\ (r.method = "GET" /\ r.param = NoParam) => called("getItems")
                 /\ (r.method = "GET" /\ r.param # NoParam) => called("getItem")
                 /\ r.method = "PUT" => called("updateItem")
                 /\ r.method = "DELETE" => called("deleteItem")
                 /\ r.method \notin {"POST", "GET", "PUT", "DELETE"}
                    => /\ handler'[t] = None
                       /\ pc'[t] = "done"
                       /\ resp'[t].status = 405
                       /\ storeCalls'[t] = 0
                       /\ << rows, nextId, cache >>' = << rows, nextId, cache >> ]_vars

RouterDispatchWitness ==
    \E t, u \in Tasks :
        /\ pc[t] = "done" /\ req[t].method = "PATCH" /\ resp[t].status = 405
        /\ pc[u] = "getItemQuery" /\ req[u].method = "GET"

\* C10: a request answered 400, 404, 405 or 500 has written nothing to the
\* cache, which is as it was when the request arrived; 400 is answered
\* without a store statement, by Create and Update on a body that is not
\* JSON; and a store statement that fails is answered 500 at once.
ErrorStatus == {400, 404, 405, 500}

ErrorsLeaveCache ==
    \A t \in Tasks :
        /\ (pc[t] = "done" /\ resp[t].status \in ErrorStatus)
           => /\ cacheWrites[t] = 0
              /\ cache = cache0
        /\ (pc[t] = "done" /\ resp[t].status = 400)
           => storeCalls[t] = 0 /\ handler[t] \in {"createItem", "updateItem"}
        /\ (handler[t] \in {"createItem", "updateItem"} /\ ~req[t].body.valid /\ pc[t] # handler[t])
           => pc[t] = "done" /\ resp[t].status = 400 /\ storeCalls[t] = 0
        /\ storeFailed[t]
           => pc[t] = "done" /\ resp[t].status = 500 /\ cacheWrites[t] = 0 /\ cache = cache0

ErrorsLeaveCacheWitness ==
    \E t \in Tasks :
        /\ pc[t] = "done"
        /\ handler[t] \in {"createItem", "updateItem", "deleteItem"}
        /\ storeFailed[t]
        /\ resp[t].status = 500
        /\ cache # EmptyMap

\* C11: an Update or Delete whose store statement returned no error is
\* answered 200, whether or not a row with the id exists; no other status
\* than 200 follows a statement that succeeded.
Answered(t) == pc[t] = "done" /\ handler[t] \in {"updateItem", "deleteItem"}

WriteStatusIgnoresRows ==
    \A t \in Tasks :
        Answered(t)
        => /\ (storeCalls[t] = 1 /\ ~storeFailed[t]) => resp[t].status = 200
           /\ resp[t].status = 200 => (storeCalls[t] = 1 /\ ~storeFailed[t])
           /\ resp[t].status \in {200, 400, 500}

\* Both cases side by side: an Update of a row that exists and a Delete of an
\* id the table never handed out, each answered 200.
WriteStatusWitness ==
    \E t, u \in Tasks :
        /\ Done(t, "updateItem") /\ resp[t].status = 200
        /\ PgInt(req[t].param).val \in DOMAIN rows
        /\ Done(u, "deleteItem") /\ resp[u].status = 200
        /\ idInt(u) >= nextId

\* C12: the store write and the cache write of an Update are two separate
\* steps that other requests can come between: the store step sets the row
\* and leaves the cache alone, and the cache step overwrites the entry with
\* the request's own item whatever the row holds by then, so the cache keeps
\* the value of the last cache writer.
LastCacheWriterWins ==
    [][\A t \in Tasks :
          /\ (pc[t] = "updateItem" /\ pc'[t] = "updateItemLock")
                => /\ cache' = cache
                   /\ LET id == PgInt(req[t].param).val IN
                        id \in DOMAIN rows => rows'[id] = req[t].body.Title
          /\ (pc[t] = "updateItemPut" /\ pc'[t] = "updateItemUnlock")
                => /\ rows' = rows
                   /\ item[t].ID \in DOMAIN cache'
                   /\ cache'[item[t].ID] = item[t]]_vars

\* Two Updates of id 1 with different titles have both been answered 200, and
\* the cache entry for 1 is not the row for 1.
LastCacheWriterWitness ==
    \E t, u \in Tasks :
        /\ Done(t, "updateItem") /\ Done(u, "updateItem")
        /\ resp[t].status = 200 /\ resp[u].status = 200
        /\ req[t].param = <<"1">> /\ req[u].param = <<"1">>
        /\ req[t].body.ID = 1 /\ req[u].body.ID = 1
        /\ req[t].body.Title # req[u].body.Title
        /\ 1 \in DOMAIN rows /\ 1 \in DOMAIN cache
        /\ cache[1].Title # rows[1]

\* Every request accepted so far is still on display (none has returned and
\* been forgotten), and every one of them has been answered.
AllAnswered ==
    /\ started = Cardinality(InFlight)
    /\ \A t \in Tasks : pc[t] \in {"idle", "done"}

Phantoms == DOMAIN cache \ DOMAIN rows

WroteEntry(t, h, k) == Done(t, h) /\ cacheWrites[t] = 1 /\ item[t].ID = k

\* C13, as stated: once all requests are answered, every phantom entry was
\* written by the Update handler.
PhantomsOnlyFromUpdate ==
    AllAnswered
    => \A k \in Phantoms : \E t \in Tasks : WroteEntry(t, "updateItem", k)

\* C13, amended: once all requests are answered, every phantom entry was
\* written by the Update handler, or by a Create or a single-item Read of an
\* id that a Delete running alongside removed from the table; Delete writes
\* no entry.
PhantomsFromUpdateOrRace ==
    AllAnswered
    => \A k \in Phantoms :
          \/ \E t \in Tasks : WroteEntry(t, "updateItem", k)
          \/ \E t, u \in Tasks :
                /\ WroteEntry(t, "createItem", k) \/ WroteEntry(t, "getItem", k)
                /\ Done(u, "deleteItem")
                /\ storeCalls[u] = 1 /\ ~storeFailed[u]
                /\ idInt(u) = k

\* A Read fetched the row, a Delete then removed row and (absent) entry, and
\* the Read cached what it had fetched: a phantom no Update wrote.
PhantomsFromRaceWitness ==
    /\ AllAnswered
    /\ \E k \in Phantoms : \E t, u \in Tasks :
          /\ WroteEntry(t, "getItem", k)
          /\ resp[t].status = 200
          /\ Done(u, "deleteItem")
          /\ resp[u].status = 200
          /\ idInt(u) = k

\* C14: a request that is about to execute, or is executing, its store
\* statement holds the cache lock neither for reading nor for writing; so
\* when every other request is in a store call (or is not running), the lock
\* is free for the one that asks for it.
AtStoreCall(t) ==
    pc[t] \in {"createItem", "getItemQuery", "getItems", "updateItem", "deleteItem"}

AsksForLock(t) ==
    pc[t] \in {"getItem", "createItemLock", "getItemLock", "updateItemLock", "deleteItemLock"}

NoStoreCallUnderLock ==
    /\ \A t \in Tasks : AtStoreCall(t) => (t \notin readers /\ writer # t)
    /\ \A t \in Tasks :
          ( /\ AsksForLock(t)
            /\ \A u \in Tasks \ {t} : AtStoreCall(u) \/ pc[u] \in {"idle", "done"} )
          => CanLock

\* One request is at its SELECT while another is inside a write section.
NoStoreCallUnderLockWitness ==
    \E t, u \in Tasks :
        /\ pc[t] = "getItemQuery"
        /\ storeCalls[t] = 0
        /\ InWriteSection(u)
        /\ writer = u

\* C15: a single-item Read answered 200 returns the Item of the one id its
\* parameter parses to (zero when unparseable): the id looked up in the
\* cache is the id of the returned Item, and that is the id the store
\* resolves for the parameter.
ReadUsesOneId ==
    \A t \in Tasks :
        (Done(t, "getItem") /\ resp[t].status = 200)
        => /\ resp[t].item.ID = idInt(t)
           /\ ~PgInt(req[t].param).err => resp[t].item.ID = PgInt(req[t].param).val

\* C16: two Creates never get the same id, however they overlap; and when
\* no Update or Delete was among the requests and all are answered, the cache holds,
\* for each one answered 201, the entry of the returned id with the title
\* that request posted.
Created(t) == Done(t, "createItem") /\ resp[t].status = 201

CreatesKeepApart ==
    /\ \A t, u \in Tasks :
          (t # u /\ Created(t) /\ Created(u)) => resp[t].item.ID # resp[u].item.ID
    /\ ( /\ AllAnswered
         /\ \A t \in InFlight : handler[t] \notin {"updateItem", "deleteItem"} )
       => \A t \in Tasks :
             Created(t)
             => /\ resp[t].item.ID \in DOMAIN cache
                /\ cache[resp[t].item.ID] =
                      [ID |-> resp[t].item.ID, Title |-> req[t].body.Title]

\* Two overlapping Creates with different titles, both answered 201.
CreatesKeepApartWitness ==
    /\ AllAnswered
    /\ \E t, u \in Tasks :
          /\ t # u
          /\ Created(t) /\ Created(u)
          /\ req[t].body.Title # req[u].body.Title
          /\ Cardinality(DOMAIN cache) = 2

\* C17: a request executes at most one store statement and changes the cache
\* at most once; the cache is changed only after the statement has returned
\* without error, and the response is written only after that; Create, Update,
\* Delete and a Read miss answered with success have each changed the cache,
\* and a Read that hit the cache has executed no store statement.
Succeeded(t) == pc[t] = "done" /\ resp[t].status \in {200, 201}

StoreThenCacheThenResponse ==
    \A t \in Tasks :
        /\ storeCalls[t] <= 1
        /\ cacheWrites[t] <= 1
        /\ cacheWrites[t] = 1 => (storeCalls[t] = 1 /\ ~storeFailed[t])
        /\ pc[t] # "done" => resp[t] = NoResp
        /\ (Succeeded(t) /\ handler[t] \in {"createItem", "updateItem", "deleteItem"})
              => cacheWrites[t] = 1
        /\ (Succeeded(t) /\ handler[t] = "getItem" /\ ~found[t])
              => (storeCalls[t] = 1 /\ cacheWrites[t] = 1)
        /\ (handler[t] = "getItem" /\ found[t])
              => (storeCalls[t] = 0 /\ cacheWrites[t] = 0)
        /\ handler[t] = "getItems" => cacheWrites[t] = 0

\* A Create answered 201 after its one statement and its one cache write,
\* and a Read of the created id answered from the cache without a statement.
StoreThenCacheThenResponseWitness ==
    \E t, u \in Tasks :
        /\ Created(t)
        /\ storeCalls[t] = 1 /\ cacheWrites[t] = 1
        /\ Done(u, "getItem") /\ found[u]
        /\ resp[u].status = 200
        /\ resp[u].item = resp[t].item
        /\ storeCalls[u] = 0

\* C18: a request answered with success has changed at most one entry of the
\* cache it found on arrival: Create and a Read miss put the returned Item
\* under its id, Update puts one Item, Delete ?id=N removes the entry of N
\* (nothing when N is not cached), a Read hit and Read-all change nothing;
\* all other entries are as they were.
OneEntryChanged ==
    \A t \in Tasks :
        Succeeded(t)
        => CASE handler[t] = "createItem" ->
                    cache = MapPut(cache0, resp[t].item.ID, resp[t].item)
             [] handler[t] = "getItem" ->
                    IF found[t] THEN cache = cache0
                    ELSE cache = MapPut(cache0, resp[t].item.ID, resp[t].item)
             [] handler[t] = "updateItem" ->
                    \E k \in Ids : \E it \in [ID : Ids, Title : Titles] :
                        /\ cache = MapPut(cache0, k, it)
                        /\ it.Title = req[t].body.Title
             [] handler[t] = "deleteItem" ->
                    /\ cache = MapDelete(cache0, idInt(t))
                    /\ \A n \in Ids : req[t].param = Format(n) => cache = MapDelete(cache0, n)
                    /\ idInt(t) \notin DOMAIN cache0 => cache = cache0
             [] OTHER -> cache = cache0

\* A Delete of a cached id, answered 200, with another entry in the cache.
OneEntryChangedWitness ==
    \E t \in Tasks : \E n \in Ids :
        /\ Done(t, "deleteItem")
        /\ resp[t].status = 200
        /\ req[t].param = Format(n)
        /\ n \in DOMAIN cache0
        /\ Cardinality(DOMAIN cache0) >= 2
        /\ DOMAIN cache = DOMAIN cache0 \ {n}

\* C19: every cache entry sits under the key equal to the id of its Item, so
\* a Read answered from the cache returns an Item with the id it looked up.
KeyIsItemId ==
    /\ \A k \in DOMAIN cache : cache[k].ID = k
    /\ \A t \in Tasks :
          (Done(t, "getItem") /\ found[t])
          => /\ resp[t].status = 200
             /\ resp[t].item.ID = idInt(t)

\* A Read of a non-zero id answered from the cache.
KeyIsItemIdWitness ==
    \E t \in Tasks :
        /\ Done(t, "getItem") /\ found[t]
        /\ idInt(t) # 0
        /\ resp[t].item.ID = idInt(t)
        /\ idInt(t) \in DOMAIN cache

\* C20: a handler that has returned (or has not started) holds the cache lock
\* neither for reading nor for writing; a response, once written, is not
\* written again; and, store statements returning and the lock being granted
\* fairly, every request that was accepted is eventually answered.
HoldsNoLock(t) == t \notin readers /\ writer # t

EveryRequestCompletes ==
    /\ [](\A t \in Tasks : pc[t] \in {"idle", "done"} => HoldsNoLock(t))
    /\ [][\A t \in Tasks :
             resp[t] # NoResp => (resp'[t] = resp[t] \/ pc'[t] = "idle")]_vars
    /\ \A t \in Tasks : (pc[t] # "idle") ~> (pc[t] = "done")

\* One request waits for the write lock that another holds.
EveryRequestCompletesWitness ==
    \E t, u \in Tasks :
        /\ t # u
        /\ pc[t] \in {"createItemLock", "getItemLock", "updateItemLock", "deleteItemLock"}
        /\ InWriteSection(u)
        /\ writer = u
        /\ ~CanLock

====
